---- MODULE Spec2Model ----
(***************************************************************************)
(* A model of the stream-resolution pipeline of oneio: the read-through    *)
(* cache (get_cache_reader), download_with_retry, and the progress reader  *)
(* (get_reader_with_progress / ProgressReader), the lookups and single     *)
(* calls (get_protocol, get_reader_raw, exists, s3_exists, the codec       *)
(* tables, get_reader_async), get_writer followed by get_reader, and       *)
(* ensure_default_provider.                                                *)
(*                                                                         *)
(* A location is a sequence of tokens; the separator tokens are "://",     *)
(* "/" and ".".  A byte stream is a sequence of small integers.  A codec   *)
(* is modelled by what it does to a stream: the encoded form of p is a     *)
(* one-byte header followed by p, decoding strips the header and fails on  *)
(* a stream that does not start with it.                                   *)
(***************************************************************************)
EXTENDS Integers, Sequences, FiniteSets, TLC

VARIABLES
    src,        \* remote resources: location -> [up, data]
    fs,         \* local files of the cache directory: path -> [exists, data]
    cacheDir,   \* "missing" or "present": the cache directory
    first,      \* per cache file: what the first successful call on it delivered
    call,       \* the last get_cache_reader call: its arguments and its outcome
    dl,         \* the download_with_retry call in progress
    dest,       \* the file at download's local_path: [exists, data]
    origin,     \* the resource behind the location read with progress: [up, data]
    pr,         \* the get_reader_with_progress call and the ProgressReader it made
    cb,         \* the (bytes_read, total_bytes) pairs the callback has received
    q,          \* the last call of a lookup or open function: its arguments and its outcome
    rt,         \* a writer made by get_writer, and what was read back after it
    prov        \* the process-wide crypto provider and the ensure_default_provider calls

cacheVars == <<fs, cacheDir, first, call>>

dlVars == <<dl, dest>>

prVars == <<origin, pr, cb>>

\* what the lookups, the writers and the provider calls work on
moreVars == <<q, rt, prov>>

vars == <<src, cacheVars, dlVars, prVars, moreVars>>

\* ------------------------------------------------------------------ bounds

\* longest byte stream a source holds
MaxLen == 2

\* largest retry count given to download_with_retry
MaxRetry == 2

\* ------------------------------------------------------------- byte streams

Bytes == {1, 31}

Streams == UNION {[1..n -> Bytes] : n \in 0..MaxLen}

Prefixes(s) == {SubSeq(s, 1, n) : n \in 0..Len(s)}

\* ------------------------------------------------------------------ codecs

\* get_compression_reader: the codec a suffix selects ("none": pass through)
get_compression_reader(file_suffix) ==
    CASE file_suffix \in {<<"gz">>, <<"gzip">>, <<"tgz">>} -> "gzip"
      [] file_suffix \in {<<"bz2">>, <<"bz">>} -> "bzip2"
      [] file_suffix \in {<<"lz4">>, <<"lz">>} -> "lz4"
      [] file_suffix \in {<<"xz">>, <<"xz2">>, <<"lzma">>} -> "xz"
      [] file_suffix \in {<<"zst">>, <<"zstd">>} -> "zstd"
      [] OTHER -> "none"

\* the first byte of a stream in a codec's format
Magic(codec) ==
    CASE codec = "gzip" -> 31
      [] codec = "bzip2" -> 66
      [] codec = "lz4" -> 4
      [] codec = "xz" -> 253
      [] codec = "zstd" -> 40
      [] OTHER -> 0

\* what reading a decoder over the stream raw to the end delivers
Decode(codec, raw) ==
    IF codec = "none" THEN [ok |-> TRUE, bytes |-> raw]
    ELSE IF Len(raw) > 0 /\ raw[1] = Magic(codec)
         THEN [ok |-> TRUE, bytes |-> Tail(raw)]
         ELSE [ok |-> FALSE, bytes |-> <<>>]

\* --------------------------------------------------------------- locations

\* the position of the last token of path that is in seps, 0 when none is
LastIndex(path, seps) ==
    LET hits == {i \in 1..Len(path) : path[i] \in seps}
    IN IF hits = {} THEN 0 ELSE CHOOSE i \in hits : \A j \in hits : j <= i

\* the position of the first token of path that is in seps, 0 when none is
FirstIndex(path, seps) ==
    LET hits == {i \in 1..Len(path) : path[i] \in seps}
    IN IF hits = {} THEN 0 ELSE CHOOSE i \in hits : \A j \in hits : i <= j

\* path.split("://") on a text given character by character: every occurrence
\* of the three characters, found from the left, becomes one separator token
RECURSIVE Split(_)
Split(text) ==
    IF text = <<>> THEN <<>>
    ELSE IF Len(text) >= 3 /\ SubSeq(text, 1, 3) = <<":", "/", "/">>
         THEN <<"://">> \o Split(SubSeq(text, 4, Len(text)))
         ELSE <<Head(text)>> \o Split(Tail(text))

ProtocolBeforeLast(path) ==
    LET i == LastIndex(path, {"://"})
    IN IF i = 0 THEN [some |-> FALSE, scheme |-> <<>>]
       ELSE [some |-> TRUE, scheme |-> SubSeq(path, 1, i - 1)]

\* get_protocol: the text before the first "://", or none
get_protocol(path) ==
    LET i == FirstIndex(path, {"://"})
    IN IF i = 0 THEN [some |-> FALSE, scheme |-> <<>>]
       ELSE [some |-> TRUE, scheme |-> SubSeq(path, 1, i - 1)]

\* the text after the last '.', lower-cased
FileTypeLowerCased(path) ==
    LET t == SubSeq(path, LastIndex(path, {"."}) + 1, Len(path))
    IN [i \in 1..Len(t) |-> IF t[i] = "GZ" THEN "gz" ELSE t[i]]

\* path.rsplit('.').next(): the text after the last '.', the whole path without one
FileType(path) == SubSeq(path, LastIndex(path, {"."}) + 1, Len(path))

\* path.split('/').next_back(): the text after the last '/'
BaseName(path) == SubSeq(path, LastIndex(path, {"/", "://"}) + 1, Len(path))

PathA == <<"http", "://", "h", "/", "a", ".", "gz">>
PathC == <<"gopher", "://", "h", "/", "c", ".", "gz">>

Paths == {PathA, PathC}

\* the locations a transport exists for
Remote == {p \in Paths : get_protocol(p).scheme \in {<<"http">>, <<"https">>, <<"ftp">>, <<"s3">>, <<"r2">>}}

NoName == [some |-> FALSE, name |-> <<>>]
NameK == [some |-> TRUE, name |-> <<"k", ".", "txt">>]

Names == {NoName, NameK}

CacheDir == <<"cache">>

\* format!("{cache_dir}/{cache_file_name}"), the name defaulting to the location's last segment
CacheFilePath(path, cache_file_name) ==
    CacheDir \o <<"/">> \o (IF cache_file_name.some THEN cache_file_name.name ELSE BaseName(path))

Files == {CacheFilePath(p, n) : p \in Paths, n \in Names}

Absent == [exists |-> FALSE, data |-> <<>>]

File(data) == [exists |-> TRUE, data |-> data]

NoContent == [ok |-> FALSE, bytes |-> <<>>]

Nothing == [some |-> FALSE, content |-> NoContent]

Some(content) == [some |-> TRUE, content |-> content]

\* a resource that is there, and one that cannot be reached
Up(data) == [up |-> TRUE, data |-> data]

Down == [up |-> FALSE, data |-> <<>>]

Resources == {Up(data) : data \in Streams} \cup {Down}

\* get_reader_raw(path) succeeds
Reachable(path) == IF path \in Remote THEN src[path].up ELSE FALSE

\* ------------------------------------------------------- download_with_retry

PathLocal == <<"data", "/", "a", ".", "gz">>

PathR2 == <<"r2", "://", "b", "/", "k", ".", "gz">>

DownloadPaths == {PathA, PathC, PathLocal, PathR2}

\* remote.rs, download: the schemes it has a branch for
DownloadSchemes == {<<"http">>, <<"https">>, <<"ftp">>, <<"s3">>}

NoError == [kind |-> "none", attempt |-> 0]

\* the error of the attempt-th call of download
Error(kind, attempt) == [kind |-> kind, attempt |-> attempt]

Idle ==
    [pc |-> "idle", path |-> PathA, given |-> 0, retry |-> 0, attempts |-> 0,
     active |-> 0, failed |-> 0, last |-> NoError, result |-> "none", err |-> NoError]

DownloadInit ==
    /\ dl = Idle
    /\ dest = Absent

RetriesOneFewer(retry) == retry > 1

\* line 231: another attempt follows a failed one
Retries(retry) == retry > 0

\* lines 218-225: download_with_retry(remote_path, local_path, retry) is called
DownloadWithRetry ==
    /\ dl.pc \in {"idle", "returned"}
    /\ \E p \in DownloadPaths, n \in 0..MaxRetry :
         dl' = [Idle EXCEPT !.pc = "loop", !.path = p, !.given = n, !.retry = n]
    /\ UNCHANGED <<src, cacheVars, dest, prVars, moreVars>>

\* line 226: the loop calls download
AttemptStarts ==
    /\ dl.pc = "loop"
    /\ dl' = [dl EXCEPT !.pc = "download", !.attempts = @ + 1, !.active = @ + 1]
    /\ UNCHANGED <<src, cacheVars, dest, prVars, moreVars>>

\* lines 227-229: download returned Ok, and so does download_with_retry
Succeeded ==
    dl' = [dl EXCEPT !.pc = "returned", !.active = @ - 1, !.result = "Ok"]

\* lines 230-237: download returned the error e: the loop goes round again
\* while retries are left, and returns e when none is
Failed(kind) ==
    LET e == Error(kind, dl.attempts)
    IN IF Retries(dl.retry)
       THEN dl' = [dl EXCEPT !.pc = "loop", !.active = @ - 1, !.failed = @ + 1,
                             !.last = e, !.retry = @ - 1]
       ELSE dl' = [dl EXCEPT !.pc = "returned", !.active = @ - 1, !.failed = @ + 1,
                             !.last = e, !.result = "Err", !.err = e]

\* download, lines 163-166 and 183-185: no scheme, or a scheme without a branch
DownloadNotSupported ==
    /\ dl.pc = "download"
    /\ ~get_protocol(dl.path).some \/ get_protocol(dl.path).scheme \notin DownloadSchemes
    /\ Failed("NotSupported")
    /\ UNCHANGED <<src, cacheVars, dest, prVars, moreVars>>

\* download, line 169: get_writer_raw(local_path) fails
DownloadWriterFails ==
    /\ dl.pc = "download"
    /\ get_protocol(dl.path).some /\ get_protocol(dl.path).scheme \in DownloadSchemes
    /\ Failed("Io")
    /\ UNCHANGED <<src, cacheVars, dest, prVars, moreVars>>

\* download, lines 169-170: the file is created, the request fails
DownloadOpenFails ==
    /\ dl.pc = "download"
    /\ get_protocol(dl.path).some /\ get_protocol(dl.path).scheme \in DownloadSchemes
    /\ ~Reachable(dl.path)
    /\ dest' = File(<<>>)
    /\ Failed("Network")
    /\ UNCHANGED <<src, cacheVars, prVars, moreVars>>

\* download, lines 169-171: the copy stops part way
DownloadCopyFails ==
    /\ dl.pc = "download"
    /\ get_protocol(dl.path).some /\ get_protocol(dl.path).scheme \in DownloadSchemes
    /\ Reachable(dl.path)
    /\ \E part \in Prefixes(src[dl.path].data) \ {src[dl.path].data} : dest' = File(part)
    /\ Failed("Network")
    /\ UNCHANGED <<src, cacheVars, prVars, moreVars>>

\* download, lines 169-172 and 188: the body is copied to the file
DownloadCopies ==
    /\ dl.pc = "download"
    /\ get_protocol(dl.path).some /\ get_protocol(dl.path).scheme \in DownloadSchemes
    /\ Reachable(dl.path)
    /\ dest' = File(src[dl.path].data)
    /\ Succeeded
    /\ UNCHANGED <<src, cacheVars, prVars, moreVars>>

\* ------------------------------------------------ get_reader_with_progress

PathFtp == <<"ftp", "://", "h", "/", "a", ".", "txt">>

ProgressPaths == {PathLocal, PathA, PathFtp, PathC}

None == [some |-> FALSE, size |-> 0]

Known(size) == [some |-> TRUE, size |-> size]

Ok(size) == [ok |-> TRUE, size |-> size, kind |-> "none"]

Err(kind) == [ok |-> FALSE, size |-> 0, kind |-> kind]

\* get_content_length on the resource r; header: the HEAD response (or the
\* object's metadata) carries a content length
get_content_length(path, r, header) ==
    LET protocol == get_protocol(path)
    IN IF ~protocol.some
       THEN (IF r.up THEN Ok(Len(r.data)) ELSE Err("Io"))
       ELSE IF protocol.scheme \in {<<"http">>, <<"https">>, <<"s3">>, <<"r2">>}
       THEN (IF ~r.up THEN Err("Network")
             ELSE IF header THEN Ok(Len(r.data)) ELSE Err("NotSupported"))
       ELSE Err("NotSupported")

ReaderRawFallsBackToFile(path, r) ==
    LET protocol == get_protocol(path)
    IN IF protocol.some
          /\ protocol.scheme \in {<<"http">>, <<"https">>, <<"ftp">>, <<"s3">>, <<"r2">>}
       THEN (IF r.up THEN Ok(Len(r.data)) ELSE Err("Network"))
       ELSE (IF r.up THEN Ok(Len(r.data)) ELSE Err("Io"))

\* get_reader_raw on the resource r
get_reader_raw(path, r) ==
    LET protocol == get_protocol(path)
    IN IF ~protocol.some
       THEN (IF r.up THEN Ok(Len(r.data)) ELSE Err("Io"))
       ELSE IF protocol.scheme \in {<<"http">>, <<"https">>, <<"ftp">>, <<"s3">>, <<"r2">>}
       THEN (IF r.up THEN Ok(Len(r.data)) ELSE Err("Network"))
       ELSE Err("NotSupported")

SizeFailFast(length) ==
    IF length.ok THEN [proceed |-> TRUE, total_size |-> length.size, size_option |-> Known(length.size)]
    ELSE [proceed |-> FALSE, total_size |-> 0, size_option |-> None]

SizeZeroForUnknown(length) ==
    IF length.ok THEN [proceed |-> TRUE, total_size |-> length.size, size_option |-> Known(length.size)]
    ELSE [proceed |-> TRUE, total_size |-> 0, size_option |-> Known(0)]

\* lines 361-368: what the call makes of get_content_length's answer; proceed:
\* the call goes on to open the source
Size(length) ==
    IF length.ok THEN [proceed |-> TRUE, total_size |-> length.size, size_option |-> Known(length.size)]
    ELSE [proceed |-> TRUE, total_size |-> 0, size_option |-> None]

ReportsAlways(n) == TRUE

\* line 231: the read is reported to the callback
Reports(n) == n > 0

AccumulateLast(bytes_read, n) == n

\* line 232: the new value of self.bytes_read
Accumulate(bytes_read, n) == bytes_read + n

CountedDecoded(path, done, chunk) ==
    Len(Decode(get_compression_reader(FileType(path)), done \o chunk).bytes)
        - Len(Decode(get_compression_reader(FileType(path)), done).bytes)

\* lines 370-379: the progress reader wraps the raw reader, under the decoder:
\* the number of bytes it sees go by when the raw reader delivers chunk after done
Counted(path, done, chunk) == Len(chunk)

Closed ==
    [pc |-> "idle", path |-> PathLocal, length |-> Err("none"), total_size |-> 0,
     size_option |-> None, result |-> "none", body |-> <<>>, got |-> <<>>,
     bytes_read |-> 0, last |-> Err("none"), eof |-> FALSE, content |-> NoContent]

ProgressInit ==
    /\ pr = Closed
    /\ cb = <<>>

\* lines 360-368: the call asks for the content length
ProgressProbe ==
    /\ pr.pc = "idle"
    /\ \E path \in ProgressPaths, header \in BOOLEAN :
         LET length == get_content_length(path, origin, header)
             size == Size(length)
         IN pr' = [Closed EXCEPT !.pc = IF size.proceed THEN "probed" ELSE "failed",
                                 !.path = path, !.length = length,
                                 !.total_size = size.total_size,
                                 !.size_option = size.size_option,
                                 !.result = IF size.proceed THEN "none" ELSE length.kind]
    /\ cb' = <<>>
    /\ UNCHANGED <<src, cacheVars, dlVars, origin, moreVars>>

\* lines 370-381: the call opens the raw source, wraps it in a ProgressReader
\* and in the decoder of the location's suffix, and returns
ProgressOpen ==
    /\ pr.pc = "probed"
    /\ LET raw == get_reader_raw(pr.path, origin)
       IN IF raw.ok
          THEN pr' = [pr EXCEPT !.pc = "open", !.result = "Reader", !.body = origin.data,
                                !.bytes_read = 0]
          ELSE pr' = [pr EXCEPT !.pc = "failed", !.result = raw.kind,
                                !.size_option = None, !.total_size = 0]
    /\ UNCHANGED <<src, cacheVars, dlVars, origin, cb, moreVars>>

\* the bytes the raw reader has yet to deliver: the rest of the response body,
\* or of the local file as it is now
Rest ==
    LET stream == IF get_protocol(pr.path).some THEN pr.body ELSE origin.data
    IN SubSeq(stream, Len(pr.got) + 1, Len(stream))

\* lines 229-236: self.inner.read(buf) returns n bytes
ProgressRead ==
    /\ pr.pc = "open"
    /\ \E n \in 0..Len(Rest) :
         LET chunk == SubSeq(Rest, 1, n)
             bytes_read == IF Reports(Counted(pr.path, pr.got, chunk))
                           THEN Accumulate(pr.bytes_read, Counted(pr.path, pr.got, chunk))
                           ELSE pr.bytes_read
         IN /\ pr' = [pr EXCEPT !.got = @ \o chunk, !.bytes_read = bytes_read,
                                !.last = Ok(n),
                                !.eof = (n = 0 /\ Rest = <<>>),
                                !.content = IF n = 0 /\ Rest = <<>>
                                            THEN Decode(get_compression_reader(FileType(pr.path)), pr.got)
                                            ELSE @]
            /\ cb' = IF Reports(Counted(pr.path, pr.got, chunk))
                     THEN Append(cb, [bytes_read |-> bytes_read, total_bytes |-> pr.total_size])
                     ELSE cb
    /\ UNCHANGED <<src, cacheVars, dlVars, origin, moreVars>>

\* line 230: self.inner.read(buf) fails
ProgressReadFails ==
    /\ pr.pc = "open"
    /\ pr' = [pr EXCEPT !.last = Err("Io"), !.eof = FALSE]
    /\ UNCHANGED <<src, cacheVars, dlVars, origin, cb, moreVars>>

\* the reader is dropped
ProgressDrop ==
    /\ pr.pc \in {"open", "failed"}
    /\ pr' = Closed
    /\ cb' = <<>>
    /\ UNCHANGED <<src, cacheVars, dlVars, origin, moreVars>>

\* the resource changes, or cannot be reached any more
OriginChanges ==
    /\ \E r \in Resources : origin' = r
    /\ UNCHANGED <<src, cacheVars, dlVars, pr, cb, moreVars>>

\* ------------------------------------------------------- the read-through cache

\* get_reader on a local file, read to the end: the file's bytes through the
\* decoder its own suffix selects
get_reader(file, data) == Decode(get_compression_reader(FileType(file)), data)

CacheHitNever(force_cache, exists) == FALSE

CacheHitIgnoresForce(force_cache, exists) == exists

\* line 126: the cache file is served without a fetch
CacheHit(force_cache, exists) == ~force_cache /\ exists

CacheBytesDecoded(path, data) == Decode(get_compression_reader(FileType(path)), data).bytes

\* lines 131-135: the bytes written to the cache file for the fetched bytes data
CacheBytes(path, data) == data

CacheReaderPathIsSource(path, file) == path

\* lines 127 and 138: the path get_reader is given for the reader the call returns
CacheReaderPath(path, file) == file

AfterFailedFetchTruncated(f) == File(<<>>)

\* lines 131-133: the cache file after get_reader_raw or read_to_end failed:
\* get_writer_raw has not been called
AfterFailedFetch(f) == f

\* the cache file as a call finds it: "absent", "same" (it holds the bytes the
\* source holds now) or "stale"
Before(path, name) ==
    LET file == CacheFilePath(path, name)
    IN IF ~fs[file].exists THEN "absent"
       ELSE IF Reachable(path) THEN (IF src[path].data = fs[file].data THEN "same" ELSE "stale")
       ELSE "stale"

NoCall ==
    [path |-> PathA, name |-> NoName, force |-> FALSE, before |-> "absent",
     opened |-> FALSE, wrote |-> FALSE, result |-> "none", content |-> NoContent]

\* a finished call: its arguments, whether it called get_reader_raw(path),
\* whether it created the cache file, the Ok or Err it returned, and what
\* reading the returned reader to the end delivers
Outcome(path, name, force, opened, wrote, result, content) ==
    [path |-> path, name |-> name, force |-> force, before |-> Before(path, name),
     opened |-> opened, wrote |-> wrote, result |-> result, content |-> content]

\* lines 108-114: the cache directory cannot be created
CacheDirFails(path, name, force) ==
    /\ cacheDir = "missing"
    /\ call' = Outcome(path, name, force, FALSE, FALSE, "Io", NoContent)
    /\ UNCHANGED <<src, fs, cacheDir, first, dlVars, prVars, moreVars>>

\* lines 125-128: the cache file exists and force is false
CacheServe(path, name, force) ==
    LET file == CacheFilePath(path, name)
        content == get_reader(CacheReaderPath(path, file), fs[file].data)
    IN /\ CacheHit(force, fs[file].exists)
       /\ cacheDir' = "present"
       /\ call' = Outcome(path, name, force, FALSE, FALSE, "Reader", content)
       /\ first' = IF first[file].some THEN first ELSE [first EXCEPT ![file] = Some(content)]
       /\ UNCHANGED <<src, fs, dlVars, prVars, moreVars>>

\* line 131: get_reader_raw(path) fails: no transport for the scheme, or the
\* resource cannot be reached
CacheOpenFails(path, name, force) ==
    LET file == CacheFilePath(path, name)
    IN /\ ~CacheHit(force, fs[file].exists)
       /\ ~Reachable(path)
       /\ cacheDir' = "present"
       /\ call' = Outcome(path, name, force, TRUE, FALSE,
                          IF path \in Remote THEN "Network" ELSE "NotSupported", NoContent)
       /\ fs' = [fs EXCEPT ![file] = AfterFailedFetch(@)]
       /\ UNCHANGED <<src, first, dlVars, prVars, moreVars>>

\* line 133: read_to_end fails part way
CacheReadFails(path, name, force) ==
    LET file == CacheFilePath(path, name)
    IN /\ ~CacheHit(force, fs[file].exists)
       /\ Reachable(path)
       /\ cacheDir' = "present"
       /\ call' = Outcome(path, name, force, TRUE, FALSE, "Io", NoContent)
       /\ fs' = [fs EXCEPT ![file] = AfterFailedFetch(@)]
       /\ UNCHANGED <<src, first, dlVars, prVars, moreVars>>

\* lines 134-136: the cache file is created (and so emptied), and writing the
\* bytes stops part way
CacheWriteFails(path, name, force) ==
    LET file == CacheFilePath(path, name)
        data == src[path].data
    IN /\ ~CacheHit(force, fs[file].exists)
       /\ Reachable(path)
       /\ cacheDir' = "present"
       /\ \E part \in Prefixes(CacheBytes(path, data)) \ {CacheBytes(path, data)} :
            fs' = [fs EXCEPT ![file] = File(part)]
       /\ first' = [first EXCEPT ![file] = Nothing]
       /\ call' = Outcome(path, name, force, TRUE, TRUE, "Io", NoContent)
       /\ UNCHANGED <<src, dlVars, prVars, moreVars>>

\* lines 130-139: the source is fetched, written to the cache file, and the
\* cache file is opened through get_reader
CacheFetch(path, name, force) ==
    LET file == CacheFilePath(path, name)
        data == src[path].data
        content == get_reader(CacheReaderPath(path, file), CacheBytes(path, data))
    IN /\ ~CacheHit(force, fs[file].exists)
       /\ Reachable(path)
       /\ cacheDir' = "present"
       /\ fs' = [fs EXCEPT ![file] = File(CacheBytes(path, data))]
       /\ first' = [first EXCEPT ![file] = Some(content)]
       /\ call' = Outcome(path, name, force, TRUE, TRUE, "Reader", content)
       /\ UNCHANGED <<src, dlVars, prVars, moreVars>>

get_cache_reader(path, name, force) ==
    \/ CacheDirFails(path, name, force)
    \/ CacheServe(path, name, force)
    \/ CacheOpenFails(path, name, force)
    \/ CacheReadFails(path, name, force)
    \/ CacheWriteFails(path, name, force)
    \/ CacheFetch(path, name, force)

\* the resource behind a location changes, or becomes unreachable
SourceChanges ==
    /\ \E p \in Remote, r \in Resources : src' = [src EXCEPT ![p] = r]
    /\ UNCHANGED <<cacheVars, dlVars, prVars, moreVars>>

CacheCall == \E p \in Paths, n \in Names, f \in BOOLEAN : get_cache_reader(p, n, f)

CacheInit ==
    /\ fs = [f \in Files |-> Absent]
    /\ cacheDir = "missing"
    /\ first = [f \in Files |-> Nothing]
    /\ call = NoCall

\* ------------------------------------------------- lookups and single calls

\* longest text given to get_protocol character by character
MaxChars == 7

Chars == {"a", ":", "/"}

Texts == UNION {[1..n -> Chars] : n \in 0..MaxChars}

\* the scheme tokens of the locations asked about; "local": no "://" at all
QuerySchemes ==
    {<<"http">>, <<"https">>, <<"ftp">>, <<"s3">>, <<"r2">>, <<"gopher">>, <<"HTTP">>, <<>>}

QuerySuffixes ==
    {"gz", "gzip", "tgz", "bz", "bz2", "lz", "lz4", "xz", "xz2", "lzma", "zst", "zstd",
     "txt", "GZ"}

LocalLocations ==
    {<<"h", "/", "a">>} \cup {<<"h", "/", "a", ".", x>> : x \in QuerySuffixes}

Locations ==
    LocalLocations \cup {s \o <<"://">> \o l : s \in QuerySchemes, l \in LocalLocations}

\* mod.rs 39-64: get_reader_raw opens a file or a connection for the location
Opens(path) ==
    \/ ~get_protocol(path).some
    \/ get_protocol(path).scheme \in {<<"http">>, <<"https">>, <<"ftp">>, <<"s3">>, <<"r2">>}

\* the text a NotSupported error carries
NotSupported(kind, text) == IF kind = "NotSupported" THEN text ELSE <<>>

\* the answers to a head-object request: none at all (bucket setup, credentials
\* or transport failed), or a status code
StatusCodes == {200, 204, 301, 403, 404, 500}

HeadObjects ==
    {[sent |-> FALSE, code |-> 0]} \cup {[sent |-> TRUE, code |-> c] : c \in StatusCodes}

\* the head-object answer for the resource r
HeadObject(r, answered) ==
    IF ~answered THEN [sent |-> FALSE, code |-> 0]
    ELSE [sent |-> TRUE, code |-> IF r.up THEN 200 ELSE 404]

S3DownloadError(code) == [ok |-> FALSE, size |-> code, kind |-> "S3DownloadError"]

\* s3.rs 343-350: s3_stats, on the answer head to the head-object request
s3_stats(head) ==
    IF ~head.sent THEN Err("Network")
    ELSE IF head.code \in 200..299 THEN Ok(0)
    ELSE S3DownloadError(head.code)

Exists(value) == [ok |-> TRUE, value |-> value, kind |-> "none", code |-> 0]

ExistsErr(kind, code) == [ok |-> FALSE, value |-> FALSE, kind |-> kind, code |-> code]

\* s3.rs 377-387: s3_exists, on what s3_stats returned
s3_exists(stats) ==
    IF ~stats.ok /\ stats.kind = "S3DownloadError"
    THEN (IF stats.size = 404 THEN Exists(FALSE) ELSE ExistsErr("S3DownloadError", stats.size))
    ELSE Exists(TRUE)

\* remote.rs 279-302: remote_file_exists on the resource r; answered: the
\* server answers the HEAD request
remote_file_exists(path, r, answered) ==
    LET protocol == get_protocol(path)
    IN IF ~protocol.some THEN Exists(r.up)
       ELSE IF protocol.scheme \in {<<"http">>, <<"https">>}
       THEN (IF answered THEN Exists(r.up) ELSE ExistsErr("Network", 0))
       ELSE IF protocol.scheme = <<"s3">>
       THEN s3_exists(s3_stats(HeadObject(r, answered)))
       ELSE ExistsErr("NotSupported", 0)

NoQuery ==
    [op |-> "none", loc |-> <<>>, up |-> FALSE, answered |-> FALSE, code |-> 0,
     result |-> "none", arg |-> <<>>, opened |-> FALSE, codec |-> "none",
     content |-> NoContent, bucket |-> <<>>, key |-> <<>>, stages |-> <<>>, opens |-> 0]

QueryInit == q = NoQuery

\* get_protocol(text) is called
QueryProtocol ==
    /\ q = NoQuery
    /\ \E text \in Texts :
         LET protocol == get_protocol(Split(text))
         IN q' = [NoQuery EXCEPT !.op = "get_protocol", !.loc = text,
                                 !.result = IF protocol.some THEN "Some" ELSE "None",
                                 !.arg = protocol.scheme]
    /\ UNCHANGED <<src, cacheVars, dlVars, prVars, rt, prov>>

\* get_reader_raw(path) is called, and the reader read to the end
QueryReaderRaw ==
    /\ q = NoQuery
    /\ \E path \in Locations :
         LET raw == get_reader_raw(path, origin)
         IN q' = [NoQuery EXCEPT !.op = "get_reader_raw", !.loc = path, !.up = origin.up,
                                 !.result = IF raw.ok THEN "Reader" ELSE raw.kind,
                                 !.arg = NotSupported(raw.kind, path),
                                 !.opened = Opens(path),
                                 !.content = IF raw.ok THEN [ok |-> TRUE, bytes |-> origin.data]
                                             ELSE NoContent]
    /\ UNCHANGED <<src, cacheVars, dlVars, prVars, rt, prov>>

\* mod.rs 87-93: get_reader(path) is called, and the reader read to the end
QueryReader ==
    /\ q = NoQuery
    /\ \E path \in Locations :
         LET raw == get_reader_raw(path, origin)
         IN q' = [NoQuery EXCEPT !.op = "get_reader", !.loc = path, !.up = origin.up,
                                 !.result = IF raw.ok THEN "Reader" ELSE raw.kind,
                                 !.arg = NotSupported(raw.kind, path),
                                 !.opened = Opens(path),
                                 !.codec = IF raw.ok THEN get_compression_reader(FileType(path))
                                           ELSE "none",
                                 !.content = IF raw.ok THEN get_reader(path, origin.data)
                                             ELSE NoContent]
    /\ UNCHANGED <<src, cacheVars, dlVars, prVars, rt, prov>>

\* mod.rs 189-198: exists(path) is called
QueryExists ==
    /\ q = NoQuery
    /\ \E path \in Locations, answered \in BOOLEAN :
         LET found == remote_file_exists(path, origin, answered)
         IN q' = [NoQuery EXCEPT !.op = "exists", !.loc = path, !.up = origin.up,
                                 !.answered = answered,
                                 !.result = IF ~found.ok THEN found.kind
                                            ELSE IF found.value THEN "true" ELSE "false",
                                 !.arg = NotSupported(found.kind, path)]
    /\ UNCHANGED <<src, cacheVars, dlVars, prVars, rt, prov>>

\* s3_exists(bucket, path) is called, and the head-object request gets the answer head
QueryS3Exists ==
    /\ q = NoQuery
    /\ \E head \in HeadObjects :
         LET found == s3_exists(s3_stats(head))
         IN q' = [NoQuery EXCEPT !.op = "s3_exists", !.answered = head.sent,
                                 !.code = head.code,
                                 !.up = head.sent /\ head.code \in 200..299,
                                 !.result = IF ~found.ok THEN found.kind
                                            ELSE IF found.value THEN "true" ELSE "false"]
    /\ UNCHANGED <<src, cacheVars, dlVars, prVars, rt, prov>>

\* the suffixes the codec tables are asked about
LookupSuffixes == {<<x>> : x \in QuerySuffixes \cup {"", "z", "gz2", "zip"}}

WriterWithoutTgz(file_suffix) ==
    CASE file_suffix \in {<<"gz">>, <<"gzip">>} -> "gzip"
      [] file_suffix \in {<<"bz2">>, <<"bz">>} -> "bzip2"
      [] file_suffix \in {<<"lz4">>, <<"lz">>} -> "lz4"
      [] file_suffix \in {<<"xz">>, <<"xz2">>, <<"lzma">>} -> "xz"
      [] file_suffix \in {<<"zst">>, <<"zstd">>} -> "zstd"
      [] OTHER -> "none"

\* get_compression_writer: the codec a suffix selects ("none": pass through)
get_compression_writer(file_suffix) ==
    CASE file_suffix \in {<<"gz">>, <<"gzip">>, <<"tgz">>} -> "gzip"
      [] file_suffix \in {<<"bz2">>, <<"bz">>} -> "bzip2"
      [] file_suffix \in {<<"lz4">>, <<"lz">>} -> "lz4"
      [] file_suffix \in {<<"xz">>, <<"xz2">>, <<"lzma">>} -> "xz"
      [] file_suffix \in {<<"zst">>, <<"zstd">>} -> "zstd"
      [] OTHER -> "none"

CodecWriterAlways(codec) == Ok(0)

\* the codec's get_writer: lz4 has none (lz4.rs 34-38)
CodecWriter(codec) == IF codec = "lz4" THEN Err("NotSupported") ELSE Ok(0)

EncodeBare(codec, data) == data

\* what a codec's writer leaves in the file once data was written and the
\* writer closed
Encode(codec, data) == IF codec = "none" THEN data ELSE <<Magic(codec)>> \o data

\* mod.rs 163-168: get_writer(path); creatable: File::create(path) succeeds
get_writer(path, creatable) ==
    IF ~creatable THEN Err("Io")
    ELSE CodecWriter(get_compression_writer(FileType(path)))

\* mod.rs 509-546: get_async_reader_raw on the resource r
get_async_reader_raw(path, r) ==
    LET protocol == get_protocol(path)
    IN IF ~protocol.some
       THEN (IF r.up THEN Ok(Len(r.data)) ELSE Err("Io"))
       ELSE IF protocol.scheme \in {<<"http">>, <<"https">>}
       THEN (IF r.up THEN Ok(Len(r.data)) ELSE Err("Network"))
       ELSE Err("NotSupported")

\* mod.rs 550-602: get_async_compression_reader: the codec a suffix selects,
\* "none" for pass through, "unsupported" for the NotSupported branches
get_async_compression_reader(file_type) ==
    CASE file_type \in {<<"gz">>, <<"gzip">>} -> "gzip"
      [] file_type \in {<<"bz">>, <<"bz2">>} -> "bzip2"
      [] file_type \in {<<"zst">>, <<"zstd">>} -> "zstd"
      [] file_type \in {<<"lz4">>, <<"lz">>} -> "unsupported"
      [] file_type \in {<<"xz">>, <<"xz2">>} -> "unsupported"
      [] OTHER -> "none"

\* get_compression_reader(raw_reader, file_suffix) is called on a reader over
\* the resource, and the reader it returns read to the end
QueryCompressionReader ==
    /\ q = NoQuery
    /\ origin.up
    /\ \E suffix \in LookupSuffixes :
         q' = [NoQuery EXCEPT !.op = "get_compression_reader", !.loc = suffix, !.up = TRUE,
                              !.result = "Reader",
                              !.arg = origin.data,
                              !.codec = get_compression_reader(suffix),
                              !.content = Decode(get_compression_reader(suffix), origin.data)]
    /\ UNCHANGED <<src, cacheVars, dlVars, prVars, rt, prov>>

\* get_compression_writer(raw_writer, file_suffix) is called, data written to
\* the writer it returns and the writer closed: content is what the file holds
QueryCompressionWriter ==
    /\ q = NoQuery
    /\ \E suffix \in LookupSuffixes, data \in Streams :
         LET codec == get_compression_writer(suffix)
             writer == CodecWriter(codec)
         IN q' = [NoQuery EXCEPT !.op = "get_compression_writer", !.loc = suffix,
                                 !.result = IF writer.ok THEN "Writer" ELSE writer.kind,
                                 !.arg = data,
                                 !.codec = codec,
                                 !.content = IF writer.ok
                                             THEN [ok |-> TRUE, bytes |-> Encode(codec, data)]
                                             ELSE NoContent]
    /\ UNCHANGED <<src, cacheVars, dlVars, prVars, rt, prov>>

\* get_writer(path) is called on a local path: the file is created (and so
\* emptied) before the codec is looked up
QueryWriter ==
    /\ q = NoQuery
    /\ \E path \in LocalLocations, creatable \in BOOLEAN :
         LET writer == get_writer(path, creatable)
         IN /\ q' = [NoQuery EXCEPT !.op = "get_writer", !.loc = path, !.up = origin.up,
                                    !.arg = origin.data,
                                    !.opened = creatable,
                                    !.result = IF writer.ok THEN "Writer" ELSE writer.kind,
                                    !.codec = get_compression_writer(FileType(path)),
                                    !.content = IF creatable THEN [ok |-> TRUE, bytes |-> <<>>]
                                                ELSE [ok |-> origin.up, bytes |-> origin.data]]
            /\ origin' = IF creatable THEN Up(<<>>) ELSE origin
    /\ UNCHANGED <<src, cacheVars, dlVars, pr, cb, rt, prov>>

\* mod.rs 420-427: get_reader_async(path) is called, and the reader read to the end
QueryReaderAsync ==
    /\ q = NoQuery
    /\ \E path \in Locations :
         LET raw == get_async_reader_raw(path, origin)
             codec == get_async_compression_reader(FileType(path))
         IN q' = [NoQuery EXCEPT !.op = "get_reader_async", !.loc = path, !.up = origin.up,
                                 !.result = IF ~raw.ok THEN raw.kind
                                            ELSE IF codec = "unsupported" THEN "NotSupported"
                                            ELSE "Reader",
                                 !.opened = ~get_protocol(path).some
                                            \/ get_protocol(path).scheme \in {<<"http">>, <<"https">>},
                                 !.codec = IF raw.ok THEN codec ELSE "none",
                                 !.content = IF raw.ok /\ codec # "unsupported"
                                             THEN Decode(codec, origin.data)
                                             ELSE NoContent]
    /\ UNCHANGED <<src, cacheVars, dlVars, prVars, rt, prov>>

\* --------------------------------------------- get_writer, then get_reader

NoWriter ==
    [pc |-> "idle", path |-> <<>>, codec |-> "none", written |-> <<>>,
     result |-> "none", back |-> NoContent]

RoundTripInit == rt = NoWriter

\* mod.rs 163-168: get_writer(path) is called on a local path
RoundTripOpen ==
    /\ rt.pc \in {"idle", "failed", "read"}
    /\ \E path \in LocalLocations, creatable \in BOOLEAN :
         LET writer == get_writer(path, creatable)
         IN /\ rt' = [NoWriter EXCEPT !.pc = IF writer.ok THEN "open" ELSE "failed",
                                      !.path = path,
                                      !.codec = get_compression_writer(FileType(path)),
                                      !.result = IF writer.ok THEN "Writer" ELSE writer.kind]
            /\ origin' = IF creatable THEN Up(<<>>) ELSE origin
    /\ UNCHANGED <<src, cacheVars, dlVars, pr, cb, q, prov>>

\* a byte is written to the writer, which keeps it in its buffers
RoundTripWrite ==
    /\ rt.pc = "open"
    /\ Len(rt.written) < MaxLen
    /\ \E b \in Bytes : rt' = [rt EXCEPT !.written = Append(@, b)]
    /\ UNCHANGED <<src, cacheVars, dlVars, prVars, q, prov>>

\* the writer is dropped: the encoder finishes its frame and the buffers reach the file
RoundTripClose ==
    /\ rt.pc = "open"
    /\ rt' = [rt EXCEPT !.pc = "closed"]
    /\ origin' = Up(Encode(rt.codec, rt.written))
    /\ UNCHANGED <<src, cacheVars, dlVars, pr, cb, q, prov>>

\* mod.rs 87-93: get_reader(path) is called on the file, and read to the end
RoundTripRead ==
    /\ rt.pc = "closed"
    /\ LET raw == get_reader_raw(rt.path, origin)
       IN rt' = [rt EXCEPT !.pc = "read",
                           !.result = IF raw.ok THEN "Reader" ELSE raw.kind,
                           !.back = IF raw.ok THEN get_reader(rt.path, origin.data)
                                    ELSE NoContent]
    /\ UNCHANGED <<src, cacheVars, dlVars, prVars, q, prov>>

\* ------------------------------------------------ ensure_default_provider

\* the threads that call ensure_default_provider
MaxThreads == 2

Threads == 1..MaxThreads

InstallReplaces(installed, provider, installable) ==
    IF installable THEN provider ELSE installed

\* CryptoProvider::install_default: the process-wide provider after the call;
\* the call fails when one is installed already, or the provider cannot be used
install_default(installed, provider, installable) ==
    IF installed = "none" /\ installable THEN provider ELSE installed

ProviderInit ==
    /\ prov \in {[installed |-> "none", installs |-> 0, aws_lc_rs |-> a, ring |-> r,
                  pc |-> [t \in Threads |-> "idle"], ret |-> [t \in Threads |-> "none"]]
                    : a \in BOOLEAN, r \in BOOLEAN}

Installed(before, after) == IF after # before THEN 1 ELSE 0

\* a thread calls ensure_default_provider
ProviderCall(t) ==
    /\ prov.pc[t] = "idle"
    /\ prov' = [prov EXCEPT !.pc[t] = "check", !.ret[t] = "none"]
    /\ UNCHANGED <<src, cacheVars, dlVars, prVars, q, rt>>

\* crypto.rs 55-57: a provider is installed already
ProviderCheck(t) ==
    /\ prov.pc[t] = "check"
    /\ prov' = IF prov.installed # "none"
               THEN [prov EXCEPT !.pc[t] = "idle", !.ret[t] = "Ok"]
               ELSE [prov EXCEPT !.pc[t] = "aws_lc_rs"]
    /\ UNCHANGED <<src, cacheVars, dlVars, prVars, q, rt>>

\* crypto.rs 60-61: aws_lc_rs::default_provider().install_default()
ProviderInstallAwsLc(t) ==
    /\ prov.pc[t] = "aws_lc_rs"
    /\ LET after == install_default(prov.installed, "aws_lc_rs", prov.aws_lc_rs)
           ok == after # prov.installed
       IN prov' = [prov EXCEPT !.installed = after,
                               !.installs = @ + Installed(prov.installed, after),
                               !.pc[t] = IF ok THEN "idle" ELSE "aws_lc_rs failed",
                               !.ret[t] = IF ok THEN "Ok" ELSE @]
    /\ UNCHANGED <<src, cacheVars, dlVars, prVars, q, rt>>

\* crypto.rs 62-69: the installation failed: Ok when a provider is there
ProviderAfterAwsLc(t) ==
    /\ prov.pc[t] = "aws_lc_rs failed"
    /\ prov' = IF prov.installed # "none"
               THEN [prov EXCEPT !.pc[t] = "idle", !.ret[t] = "Ok"]
               ELSE [prov EXCEPT !.pc[t] = "ring"]
    /\ UNCHANGED <<src, cacheVars, dlVars, prVars, q, rt>>

\* crypto.rs 72-73: ring::default_provider().install_default()
ProviderInstallRing(t) ==
    /\ prov.pc[t] = "ring"
    /\ LET after == install_default(prov.installed, "ring", prov.ring)
           ok == after # prov.installed
       IN prov' = [prov EXCEPT !.installed = after,
                               !.installs = @ + Installed(prov.installed, after),
                               !.pc[t] = IF ok THEN "idle" ELSE "ring failed",
                               !.ret[t] = IF ok THEN "Ok" ELSE @]
    /\ UNCHANGED <<src, cacheVars, dlVars, prVars, q, rt>>

\* crypto.rs 74-85: the installation failed: Ok when a provider is there, Err otherwise
ProviderAfterRing(t) ==
    /\ prov.pc[t] = "ring failed"
    /\ prov' = [prov EXCEPT !.pc[t] = "idle",
                            !.ret[t] = IF prov.installed # "none" THEN "Ok" ELSE "Err"]
    /\ UNCHANGED <<src, cacheVars, dlVars, prVars, q, rt>>

\* the application installs a provider of its own
ProviderInstalledElsewhere ==
    /\ prov.installed = "none"
    /\ prov' = [prov EXCEPT !.installed = "application", !.installs = @ + 1]
    /\ UNCHANGED <<src, cacheVars, dlVars, prVars, q, rt>>

\* the texts given to s3_url_parse, character by character but for the names
Urls ==
    {s \o rest : s \in {<<"s3", ":", "/", "/">>, <<"r2", ":", "/", "/">>,
                        <<"http", ":", "/", "/">>, <<>>},
                 rest \in {<<>>, <<"b">>, <<"b", "/">>, <<"b", "/", "k">>,
                           <<"b", "/", "k", "/", "k">>}}

\* text.split(sep): the parts between the occurrences of the character sep
RECURSIVE SplitOn(_, _)
SplitOn(text, sep) ==
    LET i == FirstIndex(text, {sep})
    IN IF i = 0 THEN <<text>>
       ELSE <<SubSeq(text, 1, i - 1)>> \o SplitOn(SubSeq(text, i + 1, Len(text)), sep)

\* parts.join(sep)
RECURSIVE Join(_, _)
Join(parts, sep) ==
    IF parts = <<>> THEN <<>>
    ELSE IF Len(parts) = 1 THEN parts[1]
    ELSE parts[1] \o <<sep>> \o Join(Tail(parts), sep)

\* s3.rs 85-93: s3_url_parse
s3_url_parse(path) ==
    LET parts == SplitOn(path, "/")
    IN IF Len(parts) < 3 THEN [ok |-> FALSE, bucket |-> <<>>, key |-> <<>>]
       ELSE [ok |-> TRUE, bucket |-> parts[3],
             key |-> Join(SubSeq(parts, 4, Len(parts)), "/")]

\* s3_url_parse(path) is called
QueryS3UrlParse ==
    /\ q = NoQuery
    /\ \E url \in Urls :
         LET parsed == s3_url_parse(url)
         IN q' = [NoQuery EXCEPT !.op = "s3_url_parse", !.loc = url,
                                 !.result = IF parsed.ok THEN "Ok" ELSE "S3UrlError",
                                 !.bucket = parsed.bucket, !.key = parsed.key]
    /\ UNCHANGED <<src, cacheVars, dlVars, prVars, rt, prov>>

\* remote.rs 107-127: the codec get_http_reader selects for a suffix
get_http_reader(file_type) ==
    CASE file_type \in {<<"gz">>, <<"gzip">>} -> "gzip"
      [] file_type \in {<<"bz2">>, <<"bz">>} -> "bzip2"
      [] file_type \in {<<"lz4">>, <<"lz">>} -> "lz4"
      [] file_type \in {<<"xz">>, <<"xz2">>, <<"lzma">>} -> "xz"
      [] OTHER -> "none"

\* remote.rs 33-74: get_http_reader_raw on the resource r: a GET request
get_http_reader_raw(path, r) ==
    LET protocol == get_protocol(path)
    IN IF protocol.some /\ protocol.scheme \in {<<"http">>, <<"https">>} /\ r.up
       THEN Ok(Len(r.data))
       ELSE Err("Network")

\* get_http_reader(path, None) is called, and the reader read to the end
QueryHttpReader ==
    /\ q = NoQuery
    /\ \E path \in Locations :
         LET raw == get_http_reader_raw(path, origin)
             codec == get_http_reader(FileType(path))
         IN q' = [NoQuery EXCEPT !.op = "get_http_reader", !.loc = path, !.up = origin.up,
                                 !.result = IF raw.ok THEN "Reader" ELSE raw.kind,
                                 !.arg = origin.data,
                                 !.opened = TRUE,
                                 !.codec = IF raw.ok THEN codec ELSE "none",
                                 !.content = IF raw.ok THEN Decode(codec, origin.data)
                                             ELSE NoContent]
    /\ UNCHANGED <<src, cacheVars, dlVars, prVars, rt, prov>>

\* mod.rs 487-505: download_async(url, path) is called; content is the file it
\* leaves at path; creatable: File::create(path) succeeds
QueryDownloadAsync ==
    /\ q = NoQuery
    /\ \E url \in Locations, creatable \in BOOLEAN :
         LET raw == get_async_reader_raw(url, origin)
             codec == get_async_compression_reader(FileType(url))
             decoded == Decode(codec, origin.data)
         IN q' = [NoQuery EXCEPT !.op = "download_async", !.loc = url, !.up = origin.up,
                                 !.arg = origin.data,
                                 !.codec = IF raw.ok THEN codec ELSE "none",
                                 !.result = IF ~raw.ok THEN raw.kind
                                            ELSE IF codec = "unsupported" THEN "NotSupported"
                                            ELSE IF ~creatable \/ ~decoded.ok THEN "Io"
                                            ELSE "Ok",
                                 !.opened = raw.ok /\ codec # "unsupported" /\ creatable,
                                 !.content = IF raw.ok /\ codec # "unsupported" /\ creatable
                                             THEN [ok |-> TRUE, bytes |-> decoded.bytes]
                                             ELSE NoContent]
    /\ UNCHANGED <<src, cacheVars, dlVars, prVars, rt, prov>>

\* a call that unwinds instead of returning
Panic == [ok |-> FALSE, size |-> 0, kind |-> "panic"]

\* remote.rs 15-32: get_ftp_reader_raw; connects: the server accepts the
\* connection; logs_in: it accepts the anonymous login; retrieves: it answers
\* the transfer type and RETR commands
get_ftp_reader_raw(path, r, connects, logs_in, retrieves) ==
    LET protocol == get_protocol(path)
    IN IF ~(protocol.some /\ protocol.scheme = <<"ftp">>) THEN Err("NotSupported")
       ELSE IF ~connects THEN Err("Network")
       ELSE IF ~logs_in THEN Panic
       ELSE IF ~retrieves THEN Err("Network")
       ELSE Ok(Len(r.data))

\* get_reader_raw(path) is called on an ftp location (mod.rs 45-47)
QueryFtpReaderRaw ==
    /\ q = NoQuery
    /\ \E path \in {l \in Locations : get_protocol(l).some /\ get_protocol(l).scheme = <<"ftp">>},
          connects \in BOOLEAN, logs_in \in BOOLEAN, retrieves \in BOOLEAN :
         LET raw == get_ftp_reader_raw(path, origin, connects, logs_in, retrieves)
         IN q' = [NoQuery EXCEPT !.op = "get_ftp_reader_raw", !.loc = path,
                                 !.up = connects, !.answered = logs_in,
                                 !.opened = TRUE,
                                 !.result = IF raw.ok THEN "Reader" ELSE raw.kind]
    /\ UNCHANGED <<src, cacheVars, dlVars, prVars, rt, prov>>

Codecs == {"gzip", "bzip2", "lz4", "xz", "zstd"}

\* the get_reader of each codec (gzip.rs 20-24, bzip2.rs 20-24, lz4.rs 23-25,
\* xz.rs 24-26, zstd.rs 22-27); built: the decoder's constructor succeeds
CodecReader(codec, built) ==
    CASE codec = "lz4" -> IF built THEN Ok(0) ELSE Panic
      [] codec = "zstd" -> IF built THEN Ok(0) ELSE Err("Io")
      [] OTHER -> Ok(0)

\* get_compression_reader wraps a raw reader in the decoder of a codec
QueryCodecReader ==
    /\ q = NoQuery
    /\ \E codec \in Codecs, built \in BOOLEAN :
         LET reader == CodecReader(codec, built)
         IN q' = [NoQuery EXCEPT !.op = "codec get_reader", !.codec = codec,
                                 !.opened = built,
                                 !.result = IF reader.ok THEN "Reader" ELSE reader.kind]
    /\ UNCHANGED <<src, cacheVars, dlVars, prVars, rt, prov>>

\* the steps of get_reader (mod.rs 87-93), in the order the code takes them
Stages == <<"Classified", "RawOpened", "Decoded", "Ready">>

\* the ? after get_reader_raw(path): an ignored error
ProceedsAlways(raw) == TRUE

\* mod.rs 88: the ? after get_reader_raw(path): the call goes on only with a reader
Proceeds(raw) == raw.ok

\* get_reader(path) is called: get_reader_raw reads the protocol of the path
ReaderClassify ==
    /\ q = NoQuery
    /\ \E path \in Locations :
         q' = [NoQuery EXCEPT !.op = "get_reader steps", !.loc = path,
                              !.result = "running", !.stages = <<"Classified">>]
    /\ UNCHANGED <<src, cacheVars, dlVars, prVars, rt, prov>>

\* get_reader_raw opens the source, or fails and get_reader returns the error
ReaderOpen ==
    /\ q.op = "get_reader steps" /\ q.result = "running" /\ q.stages = <<"Classified">>
    /\ LET raw == get_reader_raw(q.loc, origin)
       IN q' = IF Proceeds(raw)
               THEN [q EXCEPT !.opens = @ + 1, !.up = origin.up, !.opened = raw.ok,
                              !.arg = origin.data,
                              !.stages = Append(@, "RawOpened")]
               ELSE [q EXCEPT !.opens = IF Opens(q.loc) THEN @ + 1 ELSE @,
                              !.up = origin.up, !.result = raw.kind]
    /\ UNCHANGED <<src, cacheVars, dlVars, prVars, rt, prov>>

\* get_compression_reader looks the suffix up and builds the decoder
ReaderDecode ==
    /\ q.op = "get_reader steps" /\ q.result = "running"
    /\ q.stages = <<"Classified", "RawOpened">>
    /\ \E built \in BOOLEAN :
         LET codec == get_compression_reader(FileType(q.loc))
             reader == IF codec = "none" THEN Ok(0) ELSE CodecReader(codec, built)
         IN q' = IF reader.ok
                 THEN [q EXCEPT !.codec = codec, !.stages = Append(@, "Decoded")]
                 ELSE [q EXCEPT !.codec = codec, !.result = reader.kind]
    /\ UNCHANGED <<src, cacheVars, dlVars, prVars, rt, prov>>

\* get_reader returns the reader, which is read to the end
ReaderReady ==
    /\ q.op = "get_reader steps" /\ q.result = "running"
    /\ q.stages = <<"Classified", "RawOpened", "Decoded">>
    /\ q' = [q EXCEPT !.result = "Reader", !.stages = Append(@, "Ready"),
                      !.content = Decode(q.codec, q.arg)]
    /\ UNCHANGED <<src, cacheVars, dlVars, prVars, rt, prov>>

\* the caller is done with what the call returned
QueryDone ==
    /\ q # NoQuery
    /\ q.result # "running"
    /\ q' = NoQuery
    /\ UNCHANGED <<src, cacheVars, dlVars, prVars, rt, prov>>

MoreInit ==
    /\ QueryInit
    /\ RoundTripInit
    /\ prov = [installed |-> "none", installs |-> 0, aws_lc_rs |-> TRUE, ring |-> TRUE,
               pc |-> [t \in Threads |-> "idle"], ret |-> [t \in Threads |-> "none"]]

\* the cache and the downloads work on the resources src, whatever they hold
Init ==
    /\ src \in [Remote -> Resources]
    /\ origin = Down
    /\ CacheInit
    /\ DownloadInit
    /\ ProgressInit
    /\ MoreInit

Next == CacheCall \/ SourceChanges

Spec == Init /\ [][Next]_vars

DownloadNext ==
    \/ DownloadWithRetry
    \/ AttemptStarts
    \/ DownloadNotSupported
    \/ DownloadWriterFails
    \/ DownloadOpenFails
    \/ DownloadCopyFails
    \/ DownloadCopies
    \/ SourceChanges

DownloadSpec == Init /\ [][DownloadNext]_vars

ProgressNext ==
    \/ ProgressProbe
    \/ ProgressOpen
    \/ ProgressRead
    \/ ProgressReadFails
    \/ ProgressDrop
    \/ OriginChanges

\* the progress reader works on the resource origin, whatever it holds
ProgressStart ==
    /\ src = [p \in Remote |-> Down]
    /\ origin \in Resources
    /\ CacheInit
    /\ DownloadInit
    /\ ProgressInit
    /\ MoreInit

ProgressSpec == ProgressStart /\ [][ProgressNext]_vars

QueryNext ==
    \/ QueryProtocol
    \/ QueryReaderRaw
    \/ QueryReader
    \/ QueryExists
    \/ QueryS3Exists
    \/ QueryCompressionReader
    \/ QueryCompressionWriter
    \/ QueryWriter
    \/ QueryReaderAsync
    \/ QueryS3UrlParse
    \/ QueryHttpReader
    \/ QueryDownloadAsync
    \/ QueryFtpReaderRaw
    \/ QueryCodecReader
    \/ ReaderClassify
    \/ ReaderOpen
    \/ ReaderDecode
    \/ ReaderReady
    \/ QueryDone
    \/ OriginChanges

\* the lookups work on the resource origin, whatever it holds
QueryStart ==
    /\ src = [p \in Remote |-> Down]
    /\ origin \in Resources
    /\ CacheInit
    /\ DownloadInit
    /\ ProgressInit
    /\ MoreInit

QuerySpec == QueryStart /\ [][QueryNext]_vars

RoundTripNext ==
    \/ RoundTripOpen
    \/ RoundTripWrite
    \/ RoundTripClose
    \/ RoundTripRead

\* the file written is origin, absent or with any content at first
RoundTripSpec == QueryStart /\ [][RoundTripNext]_vars

ProviderNext ==
    \/ \E t \in Threads :
         \/ ProviderCall(t)
         \/ ProviderCheck(t)
         \/ ProviderInstallAwsLc(t)
         \/ ProviderAfterAwsLc(t)
         \/ ProviderInstallRing(t)
         \/ ProviderAfterRing(t)
    \/ ProviderInstalledElsewhere

ProviderStart ==
    /\ src = [p \in Remote |-> Down]
    /\ origin = Down
    /\ CacheInit
    /\ DownloadInit
    /\ ProgressInit
    /\ QueryInit
    /\ RoundTripInit
    /\ ProviderInit

ProviderSpec == ProviderStart /\ [][ProviderNext]_vars

\* the calling thread runs on: an attempt that can start or end does
DownloadFairSpec ==
    /\ DownloadSpec
    /\ WF_vars(AttemptStarts)
    /\ WF_vars(DownloadNotSupported \/ DownloadWriterFails \/ DownloadOpenFails
                  \/ DownloadCopyFails \/ DownloadCopies)

\* ------------------------------------------------ claims on download_with_retry

\* at most one download runs at any time, and the loop never makes more than
\* given + 1 attempts; Ok is returned by the first attempt that succeeds, Err
\* only when given + 1 attempts have failed, with the error of the last one
RetryBounded ==
    /\ dl.active \in {0, 1}
    /\ dl.active = 1 <=> dl.pc = "download"
    /\ dl.attempts <= dl.given + 1
    /\ dl.pc \in {"loop", "download"} => dl.retry = dl.given - dl.failed
    /\ dl.pc = "loop" => dl.attempts = dl.failed /\ dl.attempts <= dl.given
    /\ dl.pc = "download" => dl.attempts = dl.failed + 1
    /\ dl.pc = "returned" =>
          /\ dl.result \in {"Ok", "Err"}
          /\ dl.result = "Ok" => dl.attempts = dl.failed + 1
          /\ dl.result = "Err" =>
                /\ dl.attempts = dl.given + 1
                /\ dl.failed = dl.given + 1
                /\ dl.err = dl.last
                /\ dl.err.attempt = dl.given + 1
          /\ dl.given = 0 => dl.attempts = 1

\* C4: download_with_retry runs its attempts one after another, returns Ok at
\* the first attempt that succeeds, makes at most N + 1 attempts (one when
\* N = 0), returns Err only after N + 1 failed attempts and then the error of
\* the last one, and every call returns.
C4_RetrySequentialBounded ==
    /\ []RetryBounded
    /\ [][dl.pc = "returned" => (dl'.attempts = dl.attempts \/ dl'.pc = "loop")]_vars
    /\ (dl.pc \in {"loop", "download"}) ~> (dl.pc = "returned")

\* a call with the largest retry count has failed on its last attempt, after
\* the source was reached by none
C4_Witness ==
    /\ dl.pc = "returned" /\ dl.result = "Err" /\ dl.path = PathA
    /\ dl.given = MaxRetry /\ dl.attempts = MaxRetry + 1
    /\ dl.err = Error("Network", MaxRetry + 1)

\* ------------------------------------------------ claims on the progress reader

\* the last pair the callback received
LastCall == cb[Len(cb)]

\* the reader has just reported the end of the stream
AtEnd == pr.pc = "open" /\ pr.eof

\* C5: the callback is invoked once after each raw read that returns n > 0
\* bytes, with the reader's own count and total, and after nothing else: not
\* after a read of 0 bytes (at the end of the stream or not), and not after a
\* failed read.
C5_CallbackOncePerNonEmptyRead ==
    [][(pr.pc = "open" /\ pr'.pc = "open") =>
          /\ pr'.got # pr.got =>
                /\ pr'.last.ok /\ pr'.last.size = Len(pr'.got) - Len(pr.got)
                /\ cb' = Append(cb, [bytes_read |-> pr'.bytes_read,
                                     total_bytes |-> pr.total_size])
          /\ pr'.got = pr.got => cb' = cb]_vars

\* two reads delivered bytes and were reported, the read at the end of the
\* stream was not
C5_Witness ==
    /\ AtEnd /\ Len(pr.got) = 2 /\ Len(cb) = 2

\* C6: the count the callback receives starts from 0, grows from call to call,
\* and at every call is the number of raw bytes read so far; at the end of the
\* stream the last count reported is the number of raw bytes read.
C6_CumulativeIsSumOfReads ==
    /\ [](pr.pc = "open" =>
            /\ pr.bytes_read = Len(pr.got)
            /\ (cb = <<>>) <=> (pr.bytes_read = 0)
            /\ cb # <<>> => LastCall.bytes_read = Len(pr.got)
            /\ \A i \in 1..Len(cb) :
                 cb[i].bytes_read > (IF i = 1 THEN 0 ELSE cb[i - 1].bytes_read))
    /\ [][(pr.pc = "open" /\ pr'.pc = "open" /\ cb' # cb) =>
            cb'[Len(cb')].bytes_read = pr.bytes_read + pr'.last.size]_vars

\* a stream was read to its end in two reads of one byte: the callback
\* received 1, then 2
C6_Witness ==
    /\ AtEnd /\ Len(cb) = 2
    /\ cb[1].bytes_read = 1 /\ cb[2].bytes_read = 2 /\ Len(pr.got) = 2

\* C7: when a total size is returned, every callback invocation carries that
\* total and a count of at most that total.
C7_CumulativeWithinTotal ==
    (pr.pc = "open" /\ pr.size_option.some) =>
        \A i \in 1..Len(cb) :
            /\ cb[i].total_bytes = pr.size_option.size
            /\ cb[i].bytes_read <= pr.size_option.size

\* C8: the progress reader sits between the raw source and the decoder: the
\* counts reported are counts of raw bytes, and when a compressed location has
\* been read to the end the last count is the raw length of what was read,
\* which is not the length of the decoded output.
C8_CountsRawBytes ==
    /\ pr.pc = "open" => \A i \in 1..Len(cb) : cb[i].bytes_read <= Len(pr.got)
    /\ (AtEnd /\ pr.got # <<>>) =>
          /\ pr.content = Decode(get_compression_reader(FileType(pr.path)), pr.got)
          /\ cb # <<>>
          /\ LastCall.bytes_read = Len(pr.got)
          /\ get_protocol(pr.path).some => LastCall.bytes_read = Len(pr.body)
          /\ (pr.content.ok /\ get_compression_reader(FileType(pr.path)) # "none") =>
                LastCall.bytes_read # Len(pr.content.bytes)

\* a .gz resource of two raw bytes was read to the end: one decoded byte was
\* delivered, two bytes were reported
C8_Witness ==
    /\ AtEnd /\ pr.path = PathA
    /\ pr.content.ok /\ Len(pr.content.bytes) = 1
    /\ LastCall.bytes_read = 2

CallFile == CacheFilePath(call.path, call.name)

\* a step of get_cache_reader (the only steps that leave every source as it is);
\* call' then holds the call's arguments and outcome
CallStep == src' = src

\* C1: a call without force on a cache file that exists returns a reader over
\* the cache file and does not open the source: it leaves the file as it is and
\* delivers the file's bytes through the decoder of the file's suffix, which
\* are the bytes the first successful call on that file delivered (first is
\* reset when a fetch rewrites the file), whatever has become of the source.
C1_CacheHitServesCache ==
    [][(CallStep /\ ~call'.force /\ fs[CallFile'].exists) =>
            /\ call'.result = "Reader"
            /\ ~call'.opened /\ ~call'.wrote
            /\ fs' = fs
            /\ call'.content = get_reader(CallFile', fs[CallFile'].data)
            /\ first[CallFile'].some => call'.content = first[CallFile'].content]_vars

\* a call without force was served from a cache file that an earlier call
\* filled, while the source is unreachable
C1_Witness ==
    /\ ~call.force /\ call.result = "Reader" /\ ~call.opened
    /\ call.before = "stale" /\ call.path = PathA /\ ~src[PathA].up
    /\ call.content.ok /\ Len(call.content.bytes) > 0

\* C2: a call with force never serves the cache file as it finds it: unless it
\* fails at the cache directory it opens the source, and when it returns a
\* reader it has opened the source and overwritten the cache file with the
\* bytes just fetched, and the reader delivers those bytes decoded, whether or
\* not the cache file existed and whether or not it already held these bytes.
C2_ForceRefetches ==
    [][(CallStep /\ call'.force) =>
            /\ cacheDir' = "present" => call'.opened
            /\ call'.result = "Reader" =>
                  /\ call'.opened /\ call'.wrote
                  /\ fs'[CallFile'] = File(src[call'.path].data)
                  /\ call'.content = get_reader(CallFile', src[call'.path].data)]_vars

\* a forced call found a cache file holding the very bytes of the source, and
\* fetched them again
C2_Witness ==
    /\ call.force /\ call.before = "same" /\ call.result = "Reader"
    /\ call.opened /\ call.wrote

\* C3: a fetch that succeeds leaves in the cache file exactly the raw bytes the
\* source held, whatever the suffix of the location and of the cache file; a
\* fetch that fails leaves the file as it was or holding a part of those bytes.
C3_CacheHoldsRawBytes ==
    [][CallStep =>
            /\ (call'.wrote /\ call'.result = "Reader") =>
                  fs'[CallFile'] = File(src[call'.path].data)
            /\ fs' # fs =>
                  /\ call'.wrote
                  /\ fs'[CallFile'].data \in Prefixes(src[call'.path].data)
                  /\ \A file \in Files \ {CallFile'} : fs'[file] = fs[file]]_vars

\* the cache entry of a .gz location, under a .gz name, is still compressed on
\* disk, and the reader over it delivers the decoded bytes
C3_Witness ==
    /\ call.wrote /\ call.result = "Reader"
    /\ FileType(call.path) = <<"gz">> /\ FileType(CallFile) = <<"gz">>
    /\ fs[CallFile].exists /\ Len(fs[CallFile].data) > 1
    /\ fs[CallFile].data[1] = Magic("gzip")
    /\ call.content = [ok |-> TRUE, bytes |-> Tail(fs[CallFile].data)]

\* ------------------------------------------------------ claims on the lookups

\* C11: get_protocol returns None exactly when the text holds no "://", and
\* otherwise the text before the first "://", as it stands.
C11_ProtocolIsTextBeforeFirstSeparator ==
    q.op = "get_protocol" =>
        LET hits == {i \in 1..Len(q.loc) :
                        i + 2 <= Len(q.loc) /\ SubSeq(q.loc, i, i + 2) = <<":", "/", "/">>}
        IN /\ q.result = "None" <=> hits = {}
           /\ q.result = "Some" <=> hits # {}
           /\ hits = {} => q.arg = <<>>
           /\ hits # {} => \E i \in hits : /\ \A j \in hits : i <= j
                                           /\ q.arg = SubSeq(q.loc, 1, i - 1)

\* a text with "://" twice: the scheme is the text before the first
C11_Witness ==
    /\ q.op = "get_protocol"
    /\ q.loc = <<"a", ":", "/", "/", ":", "/", "/">>
    /\ q.result = "Some" /\ q.arg = <<"a">>

\* C12 as stated: a call on a location whose scheme has no transport fails with
\* NotSupported, get_cache_reader included.
C12_AlwaysNotSupported ==
    (call.result # "none" /\ ~Opens(call.path)) => call.result = "NotSupported"

\* C12, amended: for a scheme without transport get_reader_raw (and get_reader
\* and get_reader_with_progress, which call it) fails with NotSupported carrying
\* the location, whatever the suffix and the resource, and opens nothing;
\* get_cache_reader fails so when it asks the source and then writes no cache
\* file, and otherwise fails on the cache directory or serves the cache file it
\* found.
C12_NotSupportedWhenSourceIsAsked ==
    (call.result # "none" /\ ~Opens(call.path)) =>
        /\ \A p \in {l \in Locations : get_protocol(l) = get_protocol(call.path)} :
              \A r \in Resources :
                 /\ get_reader_raw(p, r) = Err("NotSupported")
                 /\ NotSupported(get_reader_raw(p, r).kind, p) = p
                 /\ ~Opens(p)
                 /\ get_content_length(p, r, TRUE) = Err("NotSupported")
        /\ call.opened => call.result = "NotSupported" /\ ~call.wrote
        /\ ~call.opened =>
              \/ call.result = "Io"
              \/ call.result = "Reader" /\ ~call.force /\ call.before # "absent"

\* a call on a gopher location was served from a cache file another location
\* left under the same name
C12_Witness ==
    /\ call.path = PathC /\ call.result = "Reader" /\ ~call.opened
    /\ call.name = NameK

\* C13: for a location with a recognized scheme, exists answers Ok(true) and
\* get_reader succeeds when the resource is there, and exists answers Ok(false)
\* and get_reader fails when it is not.
C13_ExistsAgreesWithOpen ==
    /\ (q.op = "exists" /\ Opens(q.loc) /\ q.answered) =>
          q.result = (IF q.up THEN "true" ELSE "false")
    /\ (q.op = "get_reader" /\ Opens(q.loc)) => (q.result = "Reader" <=> q.up)

\* C14: s3_exists is false exactly for status 404, true only for a 2xx status,
\* and an error in every other case, a failed head-object call included.
C14_S3ExistsPropagatesFailures ==
    q.op = "s3_exists" =>
        /\ q.result = "false" <=> (q.answered /\ q.code = 404)
        /\ q.result = "true" => (q.answered /\ q.code \in 200..299)
        /\ (~q.answered \/ q.code \notin (200..299) \cup {404}) =>
              q.result \notin {"true", "false"}

\* C15: the decoder table and the encoder table map gz, gzip, tgz to gzip; bz,
\* bz2 to bzip2; lz, lz4 to LZ4; xz, xz2, lzma to xz; zst, zstd to zstd; and
\* every other suffix to no codec.
C15_CodecTable ==
    q.op \in {"get_compression_reader", "get_compression_writer"} =>
        /\ q.loc \in {<<"gz">>, <<"gzip">>, <<"tgz">>} <=> q.codec = "gzip"
        /\ q.loc \in {<<"bz">>, <<"bz2">>} <=> q.codec = "bzip2"
        /\ q.loc \in {<<"lz">>, <<"lz4">>} <=> q.codec = "lz4"
        /\ q.loc \in {<<"xz">>, <<"xz2">>, <<"lzma">>} <=> q.codec = "xz"
        /\ q.loc \in {<<"zst">>, <<"zstd">>} <=> q.codec = "zstd"
        /\ q.codec \in {"gzip", "bzip2", "lz4", "xz", "zstd", "none"}

\* the encoder table was asked about tgz
C15_Witness ==
    /\ q.op = "get_compression_writer" /\ q.loc = <<"tgz">>
    /\ q.codec = "gzip" /\ q.result = "Writer"

C17_RoundTrip ==
    /\ \A x \in LookupSuffixes : get_compression_writer(x) = get_compression_reader(x)
    /\ rt.pc = "read" =>
          /\ rt.result = "Reader"
          /\ rt.back = [ok |-> TRUE, bytes |-> rt.written]

\* two bytes, the first the same as a gzip header, went through a .gz file
C17_Witness ==
    /\ rt.pc = "read" /\ rt.path = <<"h", "/", "a", ".", "gz">>
    /\ rt.written = <<31, 1>> /\ origin.data = <<31, 31, 1>>
    /\ rt.back.bytes = <<31, 1>>

\* C18: download answers for every location get_reader_raw can open: it says
\* NotSupported only where get_reader_raw does, and a download that returned Ok
\* left a file.
C18_DownloadOpensRawSource ==
    /\ dl.last.kind = "NotSupported" => ~Opens(dl.path)
    /\ (dl.pc = "returned" /\ dl.result = "Ok") => dest.exists

\* C19: get_reader_async never returns a reader for a location whose codec has
\* no async decoder (LZ4, XZ), and fails with NotSupported for ftp, s3 and r2.
C19_AsyncNeverPassesThrough ==
    q.op = "get_reader_async" =>
        /\ get_compression_reader(FileType(q.loc)) \in {"lz4", "xz"} => q.result # "Reader"
        /\ (get_protocol(q.loc).some
              /\ get_protocol(q.loc).scheme \in {<<"ftp">>, <<"s3">>, <<"r2">>}) =>
              q.result = "NotSupported"

\* C20: with a provider that can be installed, no call of
\* ensure_default_provider returns an error; a call that returned Ok leaves a
\* provider installed; one installation takes effect, and the provider
\* installed is never replaced.
C20_ProviderInstalledOnce ==
    /\ [](\A t \in Threads :
            /\ (prov.aws_lc_rs \/ prov.ring) => prov.ret[t] # "Err"
            /\ prov.ret[t] = "Ok" => prov.installed # "none")
    /\ [](prov.installs <= 1 /\ (prov.installs = 1 <=> prov.installed # "none"))
    /\ [][prov.installed # "none" => prov'.installed = prov.installed]_vars

\* a thread found no provider, and lost the installation to another thread,
\* which has returned Ok
C20_Witness ==
    \E t \in Threads, u \in Threads :
        /\ prov.pc[t] = "aws_lc_rs failed" /\ prov.ret[u] = "Ok"
        /\ prov.installed = "aws_lc_rs" /\ prov.installs = 1

\* C21: s3_url_parse accepts only object-storage locations: a well-formed
\* s3://bucket/key yields the bucket and the key, further slashes included, and
\* a URL with another scheme, or with none, yields an error.
C21_ParseAcceptsOnlyS3 ==
    q.op = "s3_url_parse" =>
        /\ q.loc = <<"s3", ":", "/", "/", "b", "/", "k", "/", "k">> =>
              q.result = "Ok" /\ q.bucket = <<"b">> /\ q.key = <<"k", "/", "k">>
        /\ q.result = "Ok" =>
              SubSeq(q.loc, 1, 4) \in {<<"s3", ":", "/", "/">>, <<"r2", ":", "/", "/">>}

\* C26: download_async leaves at the destination the same bytes as download:
\* the raw bytes of the source, not decompressed.
C26_DownloadAsyncWritesRawBytes ==
    (q.op = "download_async" /\ q.result = "Ok") =>
        q.content = [ok |-> TRUE, bytes |-> q.arg]

\* C29: a get_writer call that fails leaves the file at its path as it was:
\* not created, and not truncated.
C29_FailedWriterLeavesFile ==
    (q.op = "get_writer" /\ q.result # "Writer") =>
        q.content = [ok |-> q.up, bytes |-> q.arg]

\* C30: get_http_reader and get_reader_async select, for every suffix, the
\* codec get_reader selects.
C30_SameCodecEverywhere ==
    (q.op \in {"get_http_reader", "get_reader_async"} /\ q.result = "Reader") =>
        q.codec = get_compression_reader(FileType(q.loc))

\* C23: no public operation panics on a foreseeable failure: an ftp server
\* that rejects the login, or a codec constructor that fails, ends in an error
\* of kind Io, Network or NotSupported.
C23_NeverPanics ==
    q.op \in {"get_ftp_reader_raw", "codec get_reader", "get_reader steps"} =>
        q.result \in {"none", "running", "Reader", "Io", "Network", "NotSupported"}

\* C24: get_reader takes its steps in the order Classified, RawOpened, Decoded,
\* Ready; it opens the raw source at most once; a failure leaves the call where
\* it failed, with no reader, and a raw open that failed is followed by no
\* decoding.
C24_ReaderStagesInOrder ==
    q.op = "get_reader steps" =>
        /\ \E n \in 1..Len(Stages) : q.stages = SubSeq(Stages, 1, n)
        /\ q.opens <= 1
        /\ Len(q.stages) >= 2 => q.opened /\ q.opens = 1
        /\ q.result = "Reader" <=> q.stages = Stages
        /\ q.result \notin {"running", "Reader"} =>
              /\ q.content = NoContent
              /\ Len(q.stages) = 1 => q.codec = "none"

\* get_reader failed to open an http source that is down: one attempt, no
\* decoder looked up, nothing returned but the error
C24_Witness ==
    /\ q.op = "get_reader steps" /\ q.result = "Network"
    /\ q.loc = <<"http", "://", "h", "/", "a", ".", "gz">>
    /\ q.stages = <<"Classified">> /\ q.opens = 1 /\ q.codec = "none"

\* C25 as stated: the suffix of get_reader and get_writer is lower-cased, so a
\* path ending in .GZ selects gzip.
C25_SuffixLowerCased ==
    (q.op \in {"get_reader", "get_writer"} /\ q.result \in {"Reader", "Writer"}
       /\ q.loc[Len(q.loc)] = "GZ") => q.codec = "gzip"

\* C25: the suffix of get_reader and get_writer is the text after the last '.'
\* as it is written: a path ending in .gz selects gzip, a path ending in .GZ
\* selects no codec.
C25_SuffixAsWritten ==
    (q.op \in {"get_reader", "get_writer"} /\ q.result \in {"Reader", "Writer"}
       /\ Len(q.loc) >= 2 /\ q.loc[Len(q.loc) - 1] = ".") =>
        /\ q.loc[Len(q.loc)] = "gz" => q.codec = "gzip"
        /\ q.loc[Len(q.loc)] = "GZ" => q.codec = "none"

\* get_reader on a file ending in .GZ returned its bytes as they are
C25_Witness ==
    /\ q.op = "get_reader" /\ q.loc = <<"h", "/", "a", ".", "GZ">>
    /\ q.result = "Reader" /\ q.codec = "none"
    /\ origin.data = <<31, 1>> /\ q.content = [ok |-> TRUE, bytes |-> <<31, 1>>]

\* C22: a get_cache_reader call whose fetch fails at the open or at the read
\* has asked the source once, returns that error and no reader, and leaves every
\* cache file as it was: none created, none emptied or changed.
C22_FailedFetchLeavesCache ==
    [][(CallStep /\ call'.opened /\ ~call'.wrote /\ call'.result # "Reader") =>
            /\ fs' = fs /\ first' = first
            /\ call'.result \in {"Network", "NotSupported", "Io"}
            /\ call'.content = NoContent]_vars

\* a forced call found the cache file, could not reach the source, and left
\* the file holding its bytes
C22_Witness ==
    /\ call.force /\ call.before = "stale" /\ call.opened /\ ~call.wrote
    /\ call.result = "Network" /\ call.path = PathA
    /\ fs[CallFile] = File(<<31, 1>>)

\* C27: the reader get_cache_reader returns, on a hit and after a fetch alike,
\* decodes by the suffix of the cache file path, never by that of the source.
C27_CodecFromCachePath ==
    call.result = "Reader" =>
        call.content = Decode(get_compression_reader(FileType(CallFile)), fs[CallFile].data)

\* a source ending in .gz was fetched into a cache file ending in .txt, and the
\* reader delivered the bytes undecoded
C27_Witness ==
    /\ call.result = "Reader" /\ call.opened /\ call.path = PathA /\ call.name = NameK
    /\ fs[CallFile] = File(<<31, 1>>)
    /\ call.content = [ok |-> TRUE, bytes |-> <<31, 1>>]

\* C28: every cache file served as a hit holds the whole bytes of a fetch that
\* finished: a call serves no file left by a write that stopped part way.
C28_HitsServeFinishedFetches ==
    [][(CallStep /\ call'.result = "Reader" /\ ~call'.opened) => first[CallFile'].some]_vars

====
